---- MODULE Spec2Model ----
(***************************************************************************)
(* Model of datacite/errors.py: DataCiteError.factory and the constructor  *)
(* DataCiteError.__init__ shared by all error classes, run by two threads  *)
(* whose steps interleave.                                                 *)
(*                                                                         *)
(* Python strings are sequences of one-character strings, so that          *)
(* formatting and rendering are computed and can be inspected.  A Python   *)
(* value is a tagged record: a str or an int.  A dict is the sequence of   *)
(* its items in insertion order.  Dict objects live in a heap and are      *)
(* reached through references, as in Python.                               *)
(***************************************************************************)
EXTENDS Integers, Sequences, FiniteSets

VARIABLES
    pc,      \* pc[t]: the statement thread t executes next
    heap,    \* heap[a]: the dict object at address a
    self,    \* self[t]: the exception instance under construction / returned
    info,    \* info[t]: the local variable `info` of __init__ (a reference)
    exc,     \* exc[t]: the exception that escaped factory, if any
    log,     \* the payloads handed to logging.debug, in order
    arg      \* arg[t]: the request as the caller built it (never written)

vars == <<pc, heap, self, info, exc, log, arg>>

----------------------------------------------------------------------------
(* Bounds of the model *)

\* how many extra diagnostic attributes a request may carry
MaxExtra == 1

Threads == {"t1", "t2"}

----------------------------------------------------------------------------
(* Python values *)

PyStr(s) == [t |-> "str", s |-> s, n |-> 0]
PyInt(n) == [t |-> "int", s |-> <<>>, n |-> n]

Digit(d) == <<"0", "1", "2", "3", "4", "5", "6", "7", "8", "9">>[d + 1]

RECURSIVE IntToStr(_)
\* str(n) for n >= 0
IntToStr(n) == IF n < 10 THEN <<Digit(n)>>
               ELSE IntToStr(n \div 10) \o <<Digit(n % 10)>>

\* format(v) with an empty format spec: the str itself, or the decimal digits
PyFormat(v) == IF v.t = "str" THEN v.s ELSE IntToStr(v.n)

\* repr(v): a str in single quotes, an int as its digits
PyRepr(v) == IF v.t = "str" THEN <<"'">> \o v.s \o <<"'">> ELSE IntToStr(v.n)

LooseEq(a, b) == PyFormat(a) = PyFormat(b)
\* key equality of a dict lookup: '404' and 404 are different keys
PyEq(a, b) == a.t = b.t /\ a.s = b.s /\ a.n = b.n

----------------------------------------------------------------------------
(* dicts: sequences of items [key, val] in insertion order *)

Item(k, v) == [key |-> k, val |-> v]

HasKey(d, k) == \E i \in 1..Len(d) : d[i].key = k

KeyIndex(d, k) == CHOOSE i \in 1..Len(d) : d[i].key = k

DictValue(d, k) == d[KeyIndex(d, k)].val

Keys(d) == {d[i].key : i \in 1..Len(d)}

KeepAll(d, k) == d
\* the dict after d.pop(k), for a key that is present
DictPop(d, k) ==
    LET i == KeyIndex(d, k)
    IN  SubSeq(d, 1, i - 1) \o SubSeq(d, i + 1, Len(d))

RECURSIVE JoinItems(_)
JoinItems(d) ==
    IF d = <<>> THEN <<>>
    ELSE LET h == PyRepr(PyStr(d[1].key)) \o <<":", " ">> \o PyRepr(d[1].val)
         IN  IF Len(d) = 1 THEN h ELSE h \o <<",", " ">> \o JoinItems(Tail(d))

\* str(d) of a dict
DictStr(d) == <<"{">> \o JoinItems(d) \o <<"}">>

----------------------------------------------------------------------------
(* string literals *)

K_code == <<"c", "o", "d", "e">>
K_data == <<"d", "a", "t", "a">>
K_password == <<"p", "a", "s", "s", "w", "o", "r", "d">>
K_error_code == <<"e", "r", "r", "o", "r", "_", "c", "o", "d", "e">>
K_user == <<"u", "s", "e", "r">>
K_url == <<"u", "r", "l">>
K_method == <<"m", "e", "t", "h", "o", "d">>

S204 == <<"2", "0", "4">>
S400 == <<"4", "0", "0">>
S401 == <<"4", "0", "1">>
S403 == <<"4", "0", "3">>
S404 == <<"4", "0", "4">>
S409 == <<"4", "0", "9">>
S410 == <<"4", "1", "0">>
S412 == <<"4", "1", "2">>
S500 == <<"5", "0", "0">>
S503 == <<"5", "0", "3">>
Sabc == <<"a", "b", "c">>

Secret == <<"s", "e", "c", "r", "e", "t", "1", "2", "3">>
Alice == <<"a", "l", "i", "c", "e">>
Mds == <<"m", "d", "s">>
Get == <<"G", "E", "T">>
NoDoi == <<"n", "o", " ", "D", "O", "I">>

----------------------------------------------------------------------------
(* the class hierarchy *)

Classes == {"Exception", "DataCiteError", "DataCiteServerError",
            "DataCiteRequestError", "DataCiteNoContentError",
            "DataCiteBadRequestError", "DataCiteUnauthorizedError",
            "DataCiteForbiddenError", "DataCiteNotFoundError",
            "DataCiteGoneError", "DataCitePreconditionError"}

\* the base named in each class statement
BaseOf(c) ==
    CASE c = "DataCiteError" -> "Exception"
      [] c = "DataCiteServerError" -> "DataCiteError"
      [] c = "DataCiteRequestError" -> "DataCiteError"
      [] c = "DataCiteNoContentError" -> "DataCiteRequestError"
      [] c = "DataCiteBadRequestError" -> "DataCiteRequestError"
      [] c = "DataCiteUnauthorizedError" -> "DataCiteRequestError"
      [] c = "DataCiteForbiddenError" -> "DataCiteRequestError"
      [] c = "DataCiteNotFoundError" -> "DataCiteRequestError"
      [] c = "DataCiteGoneError" -> "DataCiteRequestError"
      [] c = "DataCitePreconditionError" -> "DataCiteRequestError"
      [] OTHER -> "object"

RECURSIVE IsSubclass(_, _)
\* issubclass(c, b)
IsSubclass(c, b) ==
    IF c = b THEN TRUE
    ELSE IF c \notin Classes \/ c = "Exception" THEN FALSE
    ELSE IsSubclass(BaseOf(c), b)

----------------------------------------------------------------------------
(* DataCiteError.factory *)

SwappedMapping ==
    << [key |-> PyStr(S204), cls |-> "DataCiteNoContentError"],
       [key |-> PyStr(S400), cls |-> "DataCiteBadRequestError"],
       [key |-> PyStr(S401), cls |-> "DataCiteUnauthorizedError"],
       [key |-> PyStr(S403), cls |-> "DataCiteForbiddenError"],
       [key |-> PyStr(S404), cls |-> "DataCiteGoneError"],
       [key |-> PyStr(S410), cls |-> "DataCiteNotFoundError"],
       [key |-> PyStr(S412), cls |-> "DataCitePreconditionError"] >>
error_mapping ==
    << [key |-> PyStr(S204), cls |-> "DataCiteNoContentError"],
       [key |-> PyStr(S400), cls |-> "DataCiteBadRequestError"],
       [key |-> PyStr(S401), cls |-> "DataCiteUnauthorizedError"],
       [key |-> PyStr(S403), cls |-> "DataCiteForbiddenError"],
       [key |-> PyStr(S404), cls |-> "DataCiteNotFoundError"],
       [key |-> PyStr(S410), cls |-> "DataCiteGoneError"],
       [key |-> PyStr(S412), cls |-> "DataCitePreconditionError"] >>

\* m.get(k, default)
MappingGet(m, k, default) ==
    IF \E i \in 1..Len(m) : PyEq(m[i].key, k)
    THEN m[CHOOSE i \in 1..Len(m) : PyEq(m[i].key, k)].cls
    ELSE default

IsDigit(c) == \E d \in 0..9 : c = Digit(d)

\* the decimal text of the code lies in 400..499
InRange4xx(code) ==
    LET s == PyFormat(code)
    IN  Len(s) = 3 /\ s[1] = "4" /\ IsDigit(s[2]) /\ IsDigit(s[3])

RangeErr(code) ==
    IF InRange4xx(code)
    THEN MappingGet(error_mapping, code, "DataCiteRequestError")
    ELSE MappingGet(error_mapping, code, "DataCiteServerError")
\* Err = error_mapping.get(error_code, DataCiteServerError)
Err(code) == MappingGet(error_mapping, code, "DataCiteServerError")

----------------------------------------------------------------------------
(* DataCiteError.__init__ *)

NoSpaceMessage(request) ==
    PyFormat(DictValue(request, K_code)) \o <<":">>
        \o PyFormat(DictValue(request, K_data))
\* "{request.code}: {request.data}".format(request=request)
Message(request) ==
    PyFormat(DictValue(request, K_code)) \o <<":", " ">>
        \o PyFormat(DictValue(request, K_data))

CoercedCode(request) == PyStr(PyFormat(DictValue(request, K_code)))
\* the value assigned to self.error_code
ErrorCode(request) == DictValue(request, K_code)

----------------------------------------------------------------------------
(* the heap *)

ReqAddr(t) == [owner |-> t, kind |-> "request"]

SharedAddr(t) == [owner |-> "t1", kind |-> "info"]
\* the address of the dict object a call allocates
FreshAddr(t) == [owner |-> t, kind |-> "info"]

Addrs == {ReqAddr(t) : t \in Threads} \cup {FreshAddr(t) : t \in Threads}

NoRef == [owner |-> "none", kind |-> "none"]

Dead == [live |-> FALSE, items |-> <<>>]

Obj(d) == [live |-> TRUE, items |-> d]

AliasCopy(h, src, t) == [ref |-> src, heap |-> h]
\* src.copy(): a new dict object holding the items of src
DictCopy(h, src, t) ==
    [ref |-> FreshAddr(t),
     heap |-> [h EXCEPT ![FreshAddr(t)] = Obj(h[src].items)]]

\* objects no local variable and no request refers to are reclaimed
Collect(h, refs) ==
    [a \in Addrs |->
        IF a.kind = "request" \/ (\E t \in Threads : refs[t] = a)
        THEN h[a] ELSE Dead]

NoObject == [cls |-> "None", args |-> <<>>, dict |-> <<>>]

----------------------------------------------------------------------------
(* the requests a caller may pass *)

Codes == {PyStr(S204), PyStr(S400), PyStr(S401), PyStr(S403), PyStr(S404),
          PyStr(S410), PyStr(S412), PyStr(S409), PyStr(S500), PyStr(S503),
          PyStr(Sabc), PyInt(404)}

Datas == {<<>>, NoDoi}

ExtraItems == << Item(K_user, PyStr(Alice)), Item(K_url, PyStr(Mds)),
                 Item(K_method, PyStr(Get)) >>

Extras == {SubSeq(ExtraItems, 1, n) : n \in 0..MaxExtra}

PasswordItems == {<<>>, <<Item(K_password, PyStr(Secret))>>}

\* the attribute map (__dict__) of a request
Requests ==
    {<<Item(K_code, c), Item(K_data, PyStr(d))>> \o p \o e :
        c \in Codes, d \in Datas, p \in PasswordItems, e \in Extras}

----------------------------------------------------------------------------
(* the state machine *)

Init ==
    /\ arg \in [Threads -> Requests]
    /\ heap = [a \in Addrs |->
                 IF a.kind = "request" THEN Obj(arg[a.owner]) ELSE Dead]
    /\ pc = [t \in Threads |-> "factory"]
    /\ self = [t \in Threads |-> NoObject]
    /\ info = [t \in Threads |-> NoRef]
    /\ exc = [t \in Threads |-> "None"]
    /\ log = <<>>

\* the request object thread t passed, as it is now
Request(t) == heap[ReqAddr(t)].items

\* factory: error_code = request.code; look the class up; instantiate it
Factory(t) ==
    /\ pc[t] = "factory"
    /\ self' = [self EXCEPT ![t] =
                  [cls |-> Err(DictValue(Request(t), K_code)),
                   args |-> <<>>, dict |-> <<>>]]
    /\ pc' = [pc EXCEPT ![t] = "message"]
    /\ UNCHANGED <<heap, info, exc, log, arg>>

\* __init__: super().__init__(message)
InitMessage(t) ==
    /\ pc[t] = "message"
    /\ self' = [self EXCEPT ![t].args = <<Message(Request(t))>>]
    /\ pc' = [pc EXCEPT ![t] = "error_code"]
    /\ UNCHANGED <<heap, info, exc, log, arg>>

\* __init__: self.error_code = request.code
SetErrorCode(t) ==
    /\ pc[t] = "error_code"
    /\ self' = [self EXCEPT ![t].dict =
                  <<Item(K_error_code, ErrorCode(Request(t)))>>]
    /\ pc' = [pc EXCEPT ![t] = "copy"]
    /\ UNCHANGED <<heap, info, exc, log, arg>>

\* __init__: info = request.__dict__.copy()
Copy(t) ==
    /\ pc[t] = "copy"
    /\ LET r == DictCopy(heap, ReqAddr(t), t)
       IN  /\ heap' = r.heap
           /\ info' = [info EXCEPT ![t] = r.ref]
    /\ pc' = [pc EXCEPT ![t] = "pop"]
    /\ UNCHANGED <<self, exc, log, arg>>

\* __init__: info.pop("password"); a missing key raises KeyError, which
\* leaves __init__ and factory, dropping the frame and the instance
Pop(t) ==
    /\ pc[t] = "pop"
    /\ IF HasKey(heap[info[t]].items, K_password)
       THEN /\ heap' = [heap EXCEPT ![info[t]].items =
                          DictPop(heap[info[t]].items, K_password)]
            /\ pc' = [pc EXCEPT ![t] = "debug"]
            /\ UNCHANGED <<self, info, exc>>
       ELSE /\ exc' = [exc EXCEPT ![t] = "KeyError"]
            /\ self' = [self EXCEPT ![t] = NoObject]
            /\ info' = [info EXCEPT ![t] = NoRef]
            /\ heap' = Collect(heap, info')
            /\ pc' = [pc EXCEPT ![t] = "raised"]
    /\ UNCHANGED <<log, arg>>

\* __init__: logging.debug(str(info)); then __init__ and factory return
Debug(t) ==
    /\ pc[t] = "debug"
    /\ log' = Append(log, [thread |-> t, msg |-> DictStr(heap[info[t]].items)])
    /\ info' = [info EXCEPT ![t] = NoRef]
    /\ heap' = Collect(heap, info')
    /\ pc' = [pc EXCEPT ![t] = "returned"]
    /\ UNCHANGED <<self, exc, arg>>

Next ==
    \E t \in Threads :
        \/ Factory(t)
        \/ InitMessage(t)
        \/ SetErrorCode(t)
        \/ Copy(t)
        \/ Pop(t)
        \/ Debug(t)

Spec == Init /\ [][Next]_vars

----------------------------------------------------------------------------
(* vocabulary of the properties *)

Code(t) == DictValue(arg[t], K_code)

Data(t) == DictValue(arg[t], K_data)

Returned(t) == pc[t] = "returned"

\* an instance of some class exists for the call of t
Instantiated(t) == pc[t] \notin {"factory", "raised"}

KnownCodes == {S204, S400, S401, S403, S404, S410, S412}

IsKnown(c) == c.t = "str" /\ c.s \in KnownCodes

\* the table of the documentation: status code -> variant
Documented(s) ==
    CASE s = S204 -> "DataCiteNoContentError"
      [] s = S400 -> "DataCiteBadRequestError"
      [] s = S401 -> "DataCiteUnauthorizedError"
      [] s = S403 -> "DataCiteForbiddenError"
      [] s = S404 -> "DataCiteNotFoundError"
      [] s = S410 -> "DataCiteGoneError"
      [] s = S412 -> "DataCitePreconditionError"

Contains(s, sub) ==
    \E i \in 1..(Len(s) - Len(sub) + 1) : SubSeq(s, i, i + Len(sub) - 1) = sub

\* how one item reads in a rendered dict
ItemText(it) ==
    <<"'">> \o it.key \o <<"'", ":", " ">> \o PyRepr(it.val)

LogOf(t) == SelectSeq(log, LAMBDA e : e.thread = t)

----------------------------------------------------------------------------
\* C1: for every code of the known table the instance factory creates is of
\* exactly the documented variant, which is a subclass of
\* DataCiteRequestError and not of DataCiteServerError.
C1_KnownCodeVariant ==
    \A t \in Threads :
        (Instantiated(t) /\ IsKnown(Code(t))) =>
            /\ self[t].cls = Documented(Code(t).s)
            /\ IsSubclass(self[t].cls, "DataCiteRequestError")
            /\ ~IsSubclass(self[t].cls, "DataCiteServerError")

C1_Witness ==
    /\ Returned("t1") /\ Code("t1") = PyStr(S410)
    /\ self["t1"].cls = "DataCiteGoneError"
    /\ Returned("t2") /\ Code("t2") = PyStr(S204)
    /\ self["t2"].cls = "DataCiteNoContentError"

C3_NoPasswordConstructs ==
    \A t \in Threads :
        ~HasKey(arg[t], K_password) =>
            /\ pc[t] # "raised"
            /\ exc[t] = "None"
            /\ Returned(t) =>
                   /\ self[t] # NoObject
                   /\ Len(LogOf(t)) = 1
                   /\ \A i \in 1..Len(arg[t]) :
                          Contains(LogOf(t)[1].msg, ItemText(arg[t][i]))

\* C4: the payload handed to the debug log never carries the password item
\* and carries every other item of the attribute map with its value; when
\* the logging call is next, the password is already removed.
C4_PasswordNeverLogged ==
    /\ \A t \in Threads :
           pc[t] = "debug" => ~HasKey(heap[info[t]].items, K_password)
    /\ \A i \in 1..Len(log) :
           /\ ~Contains(log[i].msg, K_password)
           /\ ~Contains(log[i].msg, Secret)
           /\ \A j \in 1..Len(arg[log[i].thread]) :
                  arg[log[i].thread][j].key # K_password =>
                      Contains(log[i].msg, ItemText(arg[log[i].thread][j]))

C4_Witness ==
    /\ Returned("t1")
    /\ HasKey(arg["t1"], K_password)
    /\ HasKey(arg["t1"], K_user)
    /\ Len(log) >= 1
    /\ log[1].thread = "t1"
    /\ Contains(log[1].msg, <<"'", "u", "s", "e", "r", "'", ":", " ",
                              "'", "a", "l", "i", "c", "e", "'">>)

\* C5: the message of a returned error is the code, then a colon and one
\* space, then the data, and nothing else, whichever variant was selected.
C5_MessageShape ==
    \A t \in Threads :
        Returned(t) =>
            LET c == PyFormat(Code(t))
                d == Data(t).s
            IN  /\ Len(self[t].args) = 1
                /\ Len(self[t].args[1]) = Len(c) + 2 + Len(d)
                /\ SubSeq(self[t].args[1], 1, Len(c)) = c
                /\ self[t].args[1][Len(c) + 1] = ":"
                /\ self[t].args[1][Len(c) + 2] = " "
                /\ SubSeq(self[t].args[1], Len(c) + 3, Len(self[t].args[1])) = d

C5_Witness ==
    /\ Returned("t1") /\ self["t1"].cls = "DataCiteNotFoundError"
    /\ self["t1"].args = << <<"4", "0", "4", ":", " ",
                              "n", "o", " ", "D", "O", "I">> >>
    /\ Returned("t2") /\ self["t2"].cls = "DataCiteServerError"
    /\ self["t2"].args = << <<"5", "0", "0", ":", " ">> >>

\* C6: every returned error has error_code equal to the code of the request
\* it was created from, for known and unknown codes alike.
C6_ErrorCodeIsCode ==
    \A t \in Threads :
        Returned(t) =>
            /\ HasKey(self[t].dict, K_error_code)
            /\ DictValue(self[t].dict, K_error_code) = Code(t)

C6_Witness ==
    /\ Returned("t1") /\ Code("t1") = PyStr(S503)
    /\ self["t1"].cls = "DataCiteServerError"
    /\ DictValue(self["t1"].dict, K_error_code) = PyStr(S503)
    /\ Returned("t2") /\ Code("t2") = PyStr(S404)
    /\ DictValue(self["t2"].dict, K_error_code) = PyStr(S404)

\* what a classification of request r produces when it runs alone
Alone(r) ==
    [self |-> [cls |-> Err(DictValue(r, K_code)),
               args |-> <<Message(r)>>,
               dict |-> <<Item(K_error_code, ErrorCode(r))>>],
     payload |-> DictStr(DictPop(r, K_password))]

\* C7: with the steps of two classifications interleaved in any order, each
\* one works on its own request only and ends with the variant, error_code,
\* message and logged payload of a run on its own.
C7_Independent ==
    \A t \in Threads :
        /\ pc[t] = "pop" => heap[info[t]].items = arg[t]
        /\ pc[t] = "debug" => heap[info[t]].items = DictPop(arg[t], K_password)
        /\ Returned(t) =>
               /\ self[t] = Alone(arg[t]).self
               /\ LogOf(t) = <<[thread |-> t, msg |-> Alone(arg[t]).payload]>>
        /\ pc[t] = "raised" => LogOf(t) = <<>>

C7_Witness ==
    /\ Returned("t1") /\ Returned("t2")
    /\ Code("t1") = PyStr(S404) /\ Code("t2") = PyStr(S503)
    /\ self["t1"].cls = "DataCiteNotFoundError"
    /\ self["t2"].cls = "DataCiteServerError"
    /\ Len(log) = 2
    /\ log[1].thread = "t2"
    /\ log[1].msg # log[2].msg

\* C8: for every string code in the range 400..499 and for '204' the error
\* factory returns is a DataCiteRequestError, and for every code in 500..599
\* it is a DataCiteServerError.
C8_FamilyByRange ==
    \A t \in Threads :
        (Returned(t) /\ Code(t).t = "str") =>
            /\ (InRange4xx(Code(t)) \/ Code(t) = PyStr(S204)) =>
                   IsSubclass(self[t].cls, "DataCiteRequestError")
            /\ Code(t) \in {PyStr(S500), PyStr(S503)} =>
                   IsSubclass(self[t].cls, "DataCiteServerError")

\* C9: constructing an error leaves the request as it was: the password and
\* every other attribute keep their values; the copy that was redacted is
\* dropped when the call is over and the error value holds only error_code.
C9_RequestUnchanged ==
    \A t \in Threads :
        /\ heap[ReqAddr(t)] = Obj(arg[t])
        /\ Returned(t) =>
               /\ info[t] = NoRef
               /\ ~heap[FreshAddr(t)].live
               /\ Keys(self[t].dict) = {K_error_code}

C9_Witness ==
    /\ Returned("t1")
    /\ HasKey(Request("t1"), K_password)
    /\ DictValue(Request("t1"), K_password) = PyStr(Secret)
    /\ HasKey(Request("t1"), K_user)
    /\ Len(LogOf("t1")) = 1

\* C10: the keys of the mapping are strings, so a request whose code is an
\* integer gets the default DataCiteServerError; its error_code stays the
\* integer and its message is the digits, a colon, a space and the data.
C10_IntegerCode ==
    /\ \A i \in 1..Len(error_mapping) : error_mapping[i].key.t = "str"
    /\ \A t \in Threads :
           (Instantiated(t) /\ Code(t).t = "int") =>
               /\ self[t].cls = "DataCiteServerError"
               /\ Returned(t) =>
                      /\ DictValue(self[t].dict, K_error_code).t = "int"
                      /\ DictValue(self[t].dict, K_error_code).n = Code(t).n
                      /\ self[t].args =
                             <<IntToStr(Code(t).n) \o <<":", " ">> \o Data(t).s>>

C10_Witness ==
    /\ Returned("t1") /\ Code("t1") = PyInt(404)
    /\ self["t1"].cls = "DataCiteServerError"
    /\ DictValue(self["t1"].dict, K_error_code) = PyInt(404)
    /\ self["t1"].args = << <<"4", "0", "4", ":", " ",
                              "n", "o", " ", "D", "O", "I">> >>

====
